---- MODULE Spec2Model ----
(***************************************************************************)
(* Device / Register / Field register-map framework of i2c_device.py,      *)
(* driven over an I2C transport.  A call of a handler is split at its      *)
(* transport calls (one bus transaction per step); the steps of one call   *)
(* are forced in order by the calling context's pc.                        *)
(***************************************************************************)
EXTENDS Integers, Sequences, FiniteSets, TLC

\* ------------------------------------------------------------------ bounds
\* Widest field the model declares on a register.
MaxWidth == 3

\* ------------------------------------------------------- program constants
\* Register's default width (Register.__init__, width : int = 8).
RegBits == 8
\* One byte on the wire: bytes([x]) accepts 0 <= x <= ByteMax.
ByteMax == 255
\* BQ25756.DEFAULT_ADDR
DEV_ADDR == 107
\* Address of the modelled register (CHARGE_VOLT_LIMIT, 0x00).
REG_ADDR == 0
\* Address of a neighbouring register of the device's map (0x02), never
\* addressed by the modelled register's handlers.
NEXT_ADDR == 2

_RW_TYPE == {"R", "W", "R/W"}
_READ == {"R", "R/W"}
_WRITE == {"W", "R/W"}

MemAddrs == {REG_ADDR, NEXT_ADDR}
\* Register contents before the first call: the byte of the mask-isolation
\* example, 0b1010_1100.
InitBytes == {172}
\* "Registers read outside those defined in the map, return 0xFF."
OtherByte == 255
\* Values handed to Register.write: the example byte, its complement, and
\* one that does not fit 8 bits.
RegValues == {172, 83, 256}
\* Bytes handed to Device.write (raw devices: backlight bit, backlight+enable).
RawValues == {8, 12}

\* ------------------------------------------------- Python integer operators
RECURSIVE Pow2(_)
Pow2(n) == IF n <= 0 THEN 1 ELSE 2 * Pow2(n - 1)

\* a & b for a, b >= 0
RECURSIVE BitAnd(_, _)
BitAnd(a, b) ==
    IF a = 0 \/ b = 0 THEN 0
    ELSE (a % 2) * (b % 2) + 2 * BitAnd(a \div 2, b \div 2)

\* a | b for a, b >= 0
RECURSIVE BitOrNat(_, _)
BitOrNat(a, b) ==
    IF a = 0 THEN b
    ELSE IF b = 0 THEN a
    ELSE (IF a % 2 = 1 \/ b % 2 = 1 THEN 1 ELSE 0) + 2 * BitOrNat(a \div 2, b \div 2)

\* a & ~m for a, m >= 0 (~m is negative in Python; the result is not)
RECURSIVE AndNot(_, _)
AndNot(a, m) ==
    IF a = 0 THEN 0
    ELSE (a % 2) * (1 - (m % 2)) + 2 * AndNot(a \div 2, m \div 2)

\* a | b for a >= 0 and any integer b (two's complement, unbounded width):
\* for b < 0, a | b = ~(~a & ~b) with ~b = -b - 1 >= 0.
BitOr(a, b) ==
    IF b >= 0 THEN BitOrNat(a, b)
    ELSE -((-b - 1) - BitAnd(-b - 1, a)) - 1

\* v << n
Shl(v, n) == v * Pow2(n)

\* x >> n for x >= 0
Shr(x, n) == x \div Pow2(n)

\* bit k of x >= 0
BitAt(x, k) == (x \div Pow2(k)) % 2

\* bytes([x]) raises ValueError unless 0 <= x <= 255
BytesOk(x) == 0 <= x /\ x <= ByteMax

\* ---------------------------------------------------------------- state
VARIABLES
    i2c_bus,      \* Device.i2c_bus: "I2C" (attached) or "None" (attribute never set)
    registers,    \* Device.registers: name -> [addr, width, r_w]
    fields,       \* Register.fields: name -> [register, bit_offset, width, r_w]
    faithful,     \* the device stores exactly what is written
    mem,          \* the device's register memory: address -> byte
    latch,        \* the port latch of a device without a register map
    ctx,          \* execution contexts: id -> frame of the call in progress
                  \*   (rd: byte read first, wr: byte written, rb: byte read back,
                  \*    dirty: a step of the call changed the device, pw: see PrecedingWrite;
                  \*    acc, arg: the driver accessor that made the call and its
                  \*    argument, pwarg: see PrecedingCommand,
                  \*    tag: the permission tag handed to a constructor,
                  \*    prior: the register add_register found under the name,
                  \*    args: the arguments of a call of a helper function,
                  \*    last: see Expected)
    lastWriter,   \* history: the context that issued the latest writeto_mem (0: none)
    lcd           \* the attributes of an Hd44780 object: rows, columns, _x, _y, _backlight

vars == <<i2c_bus, registers, fields, faithful, mem, latch, ctx, lastWriter, lcd>>

config == <<i2c_bus, registers, fields, faithful, lcd>>

\* The device is not an Hd44780 (or its __init__ has not set the attributes).
NoLcd == [rows |-> 0, columns |-> 0, x |-> 0, y |-> 0, backlight |-> 0]

\* The entry of Device.registers for a name that is not in it.
NoRegister == [addr |-> -1, width |-> 0, r_w |-> "-"]

NoFrame ==
    [pc |-> "idle", op |-> "none", fname |-> "-", value |-> 0,
     rd |-> -1, register_data |-> -1, wr |-> -1, rb |-> -1,
     ret |-> -1, err |-> "none", log |-> <<>>, dirty |-> FALSE, pw |-> -1,
     acc |-> "-", arg |-> -1, pwarg |-> -1, tag |-> "-", prior |-> NoRegister,
     args |-> <<>>, last |-> <<>>]

\* A fresh frame for a call of op on field/register f with argument v.
Frame(op, f, v) == [NoFrame EXCEPT !.pc = "done", !.op = op, !.fname = f, !.value = v]

Ready(c) == ctx[c].pc \in {"idle", "done"}

\* The field geometries a register may declare (Field.__init__ checks only types
\* and the permission tag).
Geometries == {g \in [bit_offset : 0..(RegBits - 1), width : 1..MaxWidth] : TRUE}

Contained(fld) == fld.bit_offset + fld.width <= registers[fld.register].width

\* ((2**width)-1) << bit_offset
FieldMask(fld) == Shl(Pow2(fld.width) - 1, fld.bit_offset)

\* What the device holds after `written` is sent to a location holding `old`.
\* An unfaithful device may also ignore the write or alter the top bit.
DeviceStore(old, written) ==
    IF faithful THEN {written}
    ELSE {written, old, IF written >= 128 THEN written - 128 ELSE written + 128}

\* ---------------------------------------------------------------- Init
\* A device with one register and one field on it.
InitMapped ==
    /\ i2c_bus = "I2C"
    /\ \E rp \in _RW_TYPE :
         registers = [n \in {"REG"} |-> [addr |-> REG_ADDR, width |-> RegBits, r_w |-> rp]]
    /\ \E g \in Geometries, fp \in _RW_TYPE :
         fields = [n \in {"F1"} |->
                     [register |-> "REG", bit_offset |-> g.bit_offset,
                      width |-> g.width, r_w |-> fp]]
    /\ faithful \in BOOLEAN
    /\ \E b \in InitBytes : mem = [a \in MemAddrs |-> IF a = REG_ADDR THEN b ELSE OtherByte]
    /\ latch = 0
    /\ ctx = [c \in {1} |-> NoFrame]
    /\ lastWriter = 0
    /\ lcd = NoLcd

\* A device without a register map (raw reads and writes only).
InitRaw ==
    /\ i2c_bus \in {"I2C", "None"}
    /\ registers = [n \in {} |-> 0]
    /\ fields = [n \in {} |-> 0]
    /\ faithful \in BOOLEAN
    /\ mem = [a \in MemAddrs |-> OtherByte]
    /\ latch = 0
    /\ ctx = [c \in {1} |-> NoFrame]
    /\ lastWriter = 0
    /\ lcd = NoLcd

Init == InitMapped \/ InitRaw

\* ---------------------------------------------------------------- Field.read
\* The extraction without its shift: read_data & ((2**self.width) - 1).
FieldExtract_NoShift(fld, read_data) == BitAnd(read_data, Pow2(fld.width) - 1)

\* (read_data >> self.bit_offset) & ((2**self.width) - 1)
FieldExtract(fld, read_data) == BitAnd(Shr(read_data, fld.bit_offset), Pow2(fld.width) - 1)

\* Field.read without its permission check (lines 309-310 dropped).
FieldReadFrame_NoPermission(fr0, fld) ==
    IF i2c_bus = "None" THEN [fr0 EXCEPT !.err = "BusNotReady"]
    ELSE LET b == mem[registers[fld.register].addr] IN
         [fr0 EXCEPT !.rb = b,
                     !.ret = BitAnd(Shr(b, fld.bit_offset), Pow2(fld.width) - 1),
                     !.log = Append(@, <<"readfrom_mem", DEV_ADDR, registers[fld.register].addr>>)]

\* The frame Field.read leaves, started from frame `fr0`.
FieldReadFrame(fr0, fld) ==
    IF i2c_bus = "None" THEN [fr0 EXCEPT !.err = "BusNotReady"]
    ELSE IF fld.r_w \notin _READ THEN [fr0 EXCEPT !.err = "Permission"]
    ELSE LET b == mem[registers[fld.register].addr] IN
         [fr0 EXCEPT !.rb = b,
                     !.ret = FieldExtract(fld, b),
                     !.log = Append(@, <<"readfrom_mem", DEV_ADDR, registers[fld.register].addr>>)]

\* The value of the immediately preceding call of the context, if that was a
\* Field.write on field f that returned normally (history, kept for reads).
PrecedingWrite(c, f) ==
    IF ctx[c].pc = "done" /\ ctx[c].op = "Field.write" /\ ctx[c].fname = f
       /\ ctx[c].err = "none"
    THEN ctx[c].value ELSE -1

FieldRead(c, f) ==
    /\ Ready(c)
    /\ ctx' = [ctx EXCEPT ![c] =
                 FieldReadFrame([Frame("Field.read", f, 0) EXCEPT !.pw = PrecedingWrite(c, f)],
                                fields[f])]
    /\ UNCHANGED <<config, mem, latch, lastWriter>>

\* ---------------------------------------------------------------- Field.write
\* What line 335 raises: the f-string of its ValueError reads self.size, an
\* attribute Field.__init__ never sets, so the raise statement itself fails.
FieldTooLargeError == "AttributeError"

\* The modification without the clearing line 341: old field bits survive.
Modify_NoClear(fld, register_data, value) ==
    BitOr(register_data, Shl(value, fld.bit_offset))

\* The modification that forgets the byte read: only the shifted value is sent.
Modify_Overwrite(fld, register_data, value) == Shl(value, fld.bit_offset)

\* The modification with the mask one bit too wide: the bit above the field is cleared too.
Modify_WideMask(fld, register_data, value) ==
    BitOr(AndNot(register_data, Shl(Pow2(fld.width + 1) - 1, fld.bit_offset)),
          Shl(value, fld.bit_offset))

\* The modification that forgets the shift of line 344: register_data |= value.
Modify_Unshifted(fld, register_data, value) ==
    BitOr(AndNot(register_data, FieldMask(fld)), value)

\* register_data &= ~(((2**self.width)-1) << self.bit_offset)
\* register_data |= (value << self.bit_offset)
Modify(fld, register_data, value) ==
    BitOr(AndNot(register_data, FieldMask(fld)), Shl(value, fld.bit_offset))

\* The checks without the permission check (lines 330-331 dropped).
FieldWriteChecks_NoPermission(fr0, fld) ==
    IF i2c_bus = "None" THEN [fr0 EXCEPT !.err = "BusNotReady"]
    ELSE IF fr0.value > Pow2(fld.width) - 1 THEN [fr0 EXCEPT !.err = "AttributeError"]
    ELSE [fr0 EXCEPT !.pc = "fw_regread"]

\* Lines 325-335: the checks made before any bus traffic.
FieldWriteChecks(fr0, fld) ==
    IF i2c_bus = "None" THEN [fr0 EXCEPT !.err = "BusNotReady"]
    ELSE IF fld.r_w \notin _WRITE THEN [fr0 EXCEPT !.err = "Permission"]
    ELSE IF fr0.value > Pow2(fld.width) - 1 THEN [fr0 EXCEPT !.err = FieldTooLargeError]
    ELSE [fr0 EXCEPT !.pc = "fw_regread"]

FieldWrite(c, f, v) ==
    /\ Ready(c)
    /\ ctx' = [ctx EXCEPT ![c] = FieldWriteChecks(Frame("Field.write", f, v), fields[f])]
    /\ UNCHANGED <<config, mem, latch, lastWriter>>

\* Line 338, self.register.read() (Register.read, lines 209-218), then the
\* modification of the byte read (lines 341-344).
FieldWriteRegReadFrame(fr, fld) ==
    LET reg == registers[fld.register] IN
    IF i2c_bus = "None" THEN [fr EXCEPT !.pc = "done", !.err = "BusNotReady"]
    ELSE IF reg.r_w \notin _READ THEN [fr EXCEPT !.pc = "done", !.err = "Permission"]
    ELSE [fr EXCEPT !.pc = "fw_write",
                    !.rd = mem[reg.addr],
                    !.register_data = Modify(fld, mem[reg.addr], fr.value),
                    !.log = Append(@, <<"readfrom_mem", DEV_ADDR, reg.addr>>)]

FieldWrite_RegRead(c) ==
    /\ ctx[c].pc = "fw_regread"
    /\ ctx' = [ctx EXCEPT ![c] = FieldWriteRegReadFrame(ctx[c], fields[ctx[c].fname])]
    /\ UNCHANGED <<config, mem, latch, lastWriter>>

\* Line 348: writeto_mem(device.addr, register.addr, bytes([int(register_data)])).
FieldWrite_Write(c) ==
    /\ ctx[c].pc = "fw_write"
    /\ LET fr == ctx[c]
           a == registers[fields[fr.fname].register].addr
       IN IF ~BytesOk(fr.register_data)
          THEN /\ ctx' = [ctx EXCEPT ![c] = [fr EXCEPT !.pc = "done", !.err = "BytesValue"]]
               /\ UNCHANGED <<mem, lastWriter>>
          ELSE /\ \E s \in DeviceStore(mem[a], fr.register_data) :
                     /\ mem' = [mem EXCEPT ![a] = s]
                     /\ ctx' = [ctx EXCEPT ![c] =
                                  [fr EXCEPT !.pc = "fw_verify",
                                             !.wr = fr.register_data,
                                             !.dirty = (s # mem[a]),
                                             !.log = Append(@, <<"writeto_mem", DEV_ADDR, a>>)]]
               /\ lastWriter' = c
    /\ UNCHANGED <<config, latch>>

\* The verification that reads back and never compares.
FieldWriteVerifyFrame_NoCompare(fr, fld) ==
    LET r == FieldReadFrame(fr, fld) IN [r EXCEPT !.pc = "done", !.ret = -1]

\* Lines 352-354: read_data = self.read(); compare with value.
FieldWriteVerifyFrame(fr, fld) ==
    LET r == FieldReadFrame(fr, fld) IN
    IF r.err # "none" THEN [r EXCEPT !.pc = "done"]
    ELSE IF r.ret # fr.value
         THEN [r EXCEPT !.pc = "done", !.ret = -1, !.err = "WriteVerification"]
         ELSE [r EXCEPT !.pc = "done", !.ret = -1]

FieldWrite_Verify(c) ==
    /\ ctx[c].pc = "fw_verify"
    /\ ctx' = [ctx EXCEPT ![c] = FieldWriteVerifyFrame(ctx[c], fields[ctx[c].fname])]
    /\ UNCHANGED <<config, mem, latch, lastWriter>>

\* ---------------------------------------------------------------- Register
\* Register.read with int.from_bytes(read_byte, "big", signed=True).
RegisterReadFrame_Signed(fr0, reg) ==
    IF i2c_bus = "None" THEN [fr0 EXCEPT !.err = "BusNotReady"]
    ELSE IF reg.r_w \notin _READ THEN [fr0 EXCEPT !.err = "Permission"]
    ELSE [fr0 EXCEPT !.rb = mem[reg.addr],
                     !.ret = IF mem[reg.addr] >= 128 THEN mem[reg.addr] - 256 ELSE mem[reg.addr],
                     !.log = Append(@, <<"readfrom_mem", DEV_ADDR, reg.addr>>)]

\* Register.read, lines 209-218.
RegisterReadFrame(fr0, reg) ==
    IF i2c_bus = "None" THEN [fr0 EXCEPT !.err = "BusNotReady"]
    ELSE IF reg.r_w \notin _READ THEN [fr0 EXCEPT !.err = "Permission"]
    ELSE [fr0 EXCEPT !.rb = mem[reg.addr],
                     !.ret = mem[reg.addr],
                     !.log = Append(@, <<"readfrom_mem", DEV_ADDR, reg.addr>>)]

RegisterRead(c, r) ==
    /\ Ready(c)
    /\ ctx' = [ctx EXCEPT ![c] = RegisterReadFrame(Frame("Register.read", r, 0), registers[r])]
    /\ UNCHANGED <<config, mem, latch, lastWriter>>

\* Register.write without the width check of lines 238-239.
RegisterWriteChecks_NoRange(fr0, reg) ==
    IF i2c_bus = "None" THEN [fr0 EXCEPT !.err = "BusNotReady"]
    ELSE IF reg.r_w \notin _WRITE THEN [fr0 EXCEPT !.err = "Permission"]
    ELSE IF ~BytesOk(fr0.value) THEN [fr0 EXCEPT !.err = "BytesValue"]
    ELSE [fr0 EXCEPT !.pc = "rw_write"]

\* Register.write, lines 229-239 and the bytes([value]) of line 243.
RegisterWriteChecks(fr0, reg) ==
    IF i2c_bus = "None" THEN [fr0 EXCEPT !.err = "BusNotReady"]
    ELSE IF reg.r_w \notin _WRITE THEN [fr0 EXCEPT !.err = "Permission"]
    ELSE IF fr0.value > Pow2(reg.width) - 1 THEN [fr0 EXCEPT !.err = "ValueTooLarge"]
    ELSE IF ~BytesOk(fr0.value) THEN [fr0 EXCEPT !.err = "BytesValue"]
    ELSE [fr0 EXCEPT !.pc = "rw_write"]

\* Lines 229-246: checks, the transport write, and whether a readback follows.
RegisterWrite(c, r, v) ==
    /\ Ready(c)
    /\ LET reg == registers[r]
           fr == RegisterWriteChecks(Frame("Register.write", r, v), reg)
       IN IF fr.pc = "done"
          THEN /\ ctx' = [ctx EXCEPT ![c] = fr]
               /\ UNCHANGED <<mem, lastWriter>>
          ELSE /\ \E s \in DeviceStore(mem[reg.addr], v) :
                     /\ mem' = [mem EXCEPT ![reg.addr] = s]
                     /\ ctx' = [ctx EXCEPT ![c] =
                                  [fr EXCEPT !.pc = IF reg.r_w \in _READ THEN "rw_verify" ELSE "done",
                                             !.wr = v,
                                             !.dirty = (s # mem[reg.addr]),
                                             !.log = Append(@, <<"writeto_mem", DEV_ADDR, reg.addr>>)]]
               /\ lastWriter' = c
    /\ UNCHANGED <<config, latch>>

\* Lines 249-251: read_data = self.read(); compare with value.
RegisterWriteVerifyFrame(fr, reg) ==
    LET r == RegisterReadFrame(fr, reg) IN
    IF r.err # "none" THEN [r EXCEPT !.pc = "done"]
    ELSE IF r.ret # fr.value
         THEN [r EXCEPT !.pc = "done", !.ret = -1, !.err = "WriteVerification"]
         ELSE [r EXCEPT !.pc = "done", !.ret = -1]

RegisterWrite_Verify(c) ==
    /\ ctx[c].pc = "rw_verify"
    /\ ctx' = [ctx EXCEPT ![c] = RegisterWriteVerifyFrame(ctx[c], registers[ctx[c].fname])]
    /\ UNCHANGED <<config, mem, latch, lastWriter>>

\* ---------------------------------------------------------------- Device
\* Device.read, lines 65-69.  Without a bus the attribute i2c_bus does not
\* exist (lines 52-53), and reading it raises AttributeError.
DeviceReadFrame(fr0) ==
    IF i2c_bus = "None" THEN [fr0 EXCEPT !.err = "AttributeError"]
    ELSE [fr0 EXCEPT !.rb = latch,
                     !.ret = latch,
                     !.log = Append(@, <<"readfrom", DEV_ADDR, -1>>)]

\* The raw calls are "used when the I2C device does not employ a memory
\* system or a register set".
RawDevice == DOMAIN registers = {}

DeviceRead(c) ==
    /\ Ready(c)
    /\ RawDevice
    /\ ctx' = [ctx EXCEPT ![c] = DeviceReadFrame(Frame("Device.read", "-", 0))]
    /\ UNCHANGED <<config, mem, latch, lastWriter>>

\* Device.write, line 83.
DeviceWrite(c, data) ==
    /\ Ready(c)
    /\ RawDevice
    /\ LET fr == Frame("Device.write", "-", data) IN
       IF i2c_bus = "None"
       THEN /\ ctx' = [ctx EXCEPT ![c] = [fr EXCEPT !.err = "AttributeError"]]
            /\ UNCHANGED latch
       ELSE IF ~BytesOk(data)
       THEN /\ ctx' = [ctx EXCEPT ![c] = [fr EXCEPT !.err = "BytesValue"]]
            /\ UNCHANGED latch
       ELSE \E s \in DeviceStore(latch, data) :
               /\ latch' = s
               /\ ctx' = [ctx EXCEPT ![c] =
                            [fr EXCEPT !.pc = "dw_verify",
                                       !.wr = data,
                                       !.dirty = (s # latch),
                                       !.log = Append(@, <<"writeto", DEV_ADDR, -1>>)]]
    /\ UNCHANGED <<config, mem, lastWriter>>

\* Device.write without the comparison of lines 87-88.
DeviceWriteVerifyFrame_NoCompare(fr) ==
    LET r == DeviceReadFrame(fr) IN [r EXCEPT !.pc = "done", !.ret = -1]

\* Device.write, lines 86-88.
DeviceWriteVerifyFrame(fr) ==
    LET r == DeviceReadFrame(fr) IN
    IF r.err # "none" THEN [r EXCEPT !.pc = "done"]
    ELSE IF r.ret # fr.value
         THEN [r EXCEPT !.pc = "done", !.ret = -1, !.err = "WriteVerification"]
         ELSE [r EXCEPT !.pc = "done", !.ret = -1]

DeviceWrite_Verify(c) ==
    /\ ctx[c].pc = "dw_verify"
    /\ ctx' = [ctx EXCEPT ![c] = DeviceWriteVerifyFrame(ctx[c])]
    /\ UNCHANGED <<config, mem, latch, lastWriter>>

\* ---------------------------------------------------------------- Next
\* Arguments a caller hands to Field.write on fld: every value of the field,
\* the first one that does not fit, and a negative one.
FieldValues(fld) == (0 - 1)..Pow2(fld.width)

Contexts == DOMAIN ctx

Next ==
    \/ \E c \in Contexts, f \in DOMAIN fields : FieldRead(c, f)
    \/ \E c \in Contexts, f \in DOMAIN fields :
         \E v \in FieldValues(fields[f]) : FieldWrite(c, f, v)
    \/ \E c \in Contexts : FieldWrite_RegRead(c)
    \/ \E c \in Contexts : FieldWrite_Write(c)
    \/ \E c \in Contexts : FieldWrite_Verify(c)
    \/ \E c \in Contexts, r \in DOMAIN registers : RegisterRead(c, r)
    \/ \E c \in Contexts, r \in DOMAIN registers : \E v \in RegValues : RegisterWrite(c, r, v)
    \/ \E c \in Contexts : RegisterWrite_Verify(c)
    \/ \E c \in Contexts : DeviceRead(c)
    \/ \E c \in Contexts, d \in RawValues : DeviceWrite(c, d)
    \/ \E c \in Contexts : DeviceWrite_Verify(c)

Spec == Init /\ [][Next]_vars

\* ------------------------------------------------ two unserialized callers
\* Register layouts with two non-overlapping read/write fields: the 3-bit
\* field at offset 2 with its 2-bit neighbour below, and two 1-bit flags.
ConcLayouts ==
    { <<[bit_offset |-> 2, width |-> 3], [bit_offset |-> 0, width |-> 2]>>,
      <<[bit_offset |-> 7, width |-> 1], [bit_offset |-> 6, width |-> 1]>> }

\* Two execution contexts share the device, with no lock around a call.
InitConc ==
    /\ i2c_bus = "I2C"
    /\ registers = [n \in {"REG"} |-> [addr |-> REG_ADDR, width |-> RegBits, r_w |-> "R/W"]]
    /\ \E l \in ConcLayouts :
         fields = [n \in {"F1", "F2"} |->
                     LET g == IF n = "F1" THEN l[1] ELSE l[2] IN
                     [register |-> "REG", bit_offset |-> g.bit_offset,
                      width |-> g.width, r_w |-> "R/W"]]
    /\ faithful = TRUE
    /\ \E b \in InitBytes : mem = [a \in MemAddrs |-> IF a = REG_ADDR THEN b ELSE OtherByte]
    /\ latch = 0
    /\ ctx = [c \in {1, 2} |-> NoFrame]
    /\ lastWriter = 0
    /\ lcd = NoLcd

\* Each context makes one call of Field.write, at any time, and runs it to
\* its end.
NextConc ==
    \/ \E c \in Contexts, f \in DOMAIN fields :
         \E v \in FieldValues(fields[f]) : ctx[c].pc = "idle" /\ FieldWrite(c, f, v)
    \/ \E c \in Contexts : FieldWrite_RegRead(c)
    \/ \E c \in Contexts : FieldWrite_Write(c)
    \/ \E c \in Contexts : FieldWrite_Verify(c)

SpecConc == InitConc /\ [][NextConc]_vars

\* ------------------------------------------ Device-level register calls
\* The register widths Register.__init__ accepts (lines 171-172) that the
\* drivers' "8 or 16 bit" devices can ask for, and the narrower ones.
RegWidths == {1, 2, 4, 8, 16}

\* Register names: a usual one, and the one name that makes Device.register
\* exist (add_register does setattr(self, name, register), line 105).
DevNames == {"REG", "register"}

\* A Register that belongs to another Device object, handed to reg_read or
\* reg_write of this one (the methods use nothing but its addr).
ForeignReg == [addr |-> REG_ADDR, width |-> RegBits, r_w |-> "R/W"]

RegArgNames == IF DOMAIN registers = {} THEN {"other"} ELSE DOMAIN registers

RegArg(r) == IF r \in DOMAIN registers THEN registers[r] ELSE ForeignReg

\* Arguments handed to Register.write on reg: the ends of its declared
\* range, the first value beyond it, and the ends of the one-byte range.
WidthValues(reg) == {0, 83, Pow2(reg.width) - 1, Pow2(reg.width), ByteMax, ByteMax + 1}

\* A device with one register of any accepted width and no fields.
InitDevMapped ==
    /\ i2c_bus = "I2C"
    /\ \E n \in DevNames, w \in RegWidths, rp \in _RW_TYPE :
         registers = [k \in {n} |-> [addr |-> REG_ADDR, width |-> w, r_w |-> rp]]
    /\ fields = [n \in {} |-> 0]
    /\ faithful \in BOOLEAN
    /\ \E b \in InitBytes : mem = [a \in MemAddrs |-> IF a = REG_ADDR THEN b ELSE OtherByte]
    /\ latch = 0
    /\ ctx = [c \in {1} |-> NoFrame]
    /\ lastWriter = 0
    /\ lcd = NoLcd

InitDev == InitDevMapped \/ InitRaw

\* Device.reg_read, lines 115-119: no permission check, one byte.  Without a
\* bus the attribute i2c_bus does not exist (lines 52-53).
DeviceRegReadFrame(fr0, reg) ==
    IF i2c_bus = "None" THEN [fr0 EXCEPT !.err = "AttributeError"]
    ELSE [fr0 EXCEPT !.rb = mem[reg.addr],
                     !.ret = mem[reg.addr],
                     !.log = Append(@, <<"readfrom_mem", DEV_ADDR, reg.addr>>)]

DeviceRegRead(c, r) ==
    /\ Ready(c)
    /\ ctx' = [ctx EXCEPT ![c] = DeviceRegReadFrame(Frame("Device.reg_read", r, 0), RegArg(r))]
    /\ UNCHANGED <<config, mem, latch, lastWriter>>

\* Line 136, `if self.register.r_w in _READ:` -- the attribute `register` of
\* the Device, not the parameter.  It exists only when a register of that
\* name was added; otherwise the lookup raises after the write went out.
RegWriteReadable(fr, reg) ==
    IF "register" \notin DOMAIN registers
    THEN [fr EXCEPT !.pc = "done", !.err = "AttributeError"]
    ELSE [fr EXCEPT !.pc = IF registers["register"].r_w \in _READ
                           THEN "regw_verify" ELSE "done"]

\* Device.reg_write, lines 133-136.
DeviceRegWrite(c, r, data) ==
    /\ Ready(c)
    /\ LET reg == RegArg(r)
           fr == Frame("Device.reg_write", r, data)
       IN IF i2c_bus = "None"
          THEN /\ ctx' = [ctx EXCEPT ![c] = [fr EXCEPT !.err = "AttributeError"]]
               /\ UNCHANGED <<mem, lastWriter>>
          ELSE IF ~BytesOk(data)
          THEN /\ ctx' = [ctx EXCEPT ![c] = [fr EXCEPT !.err = "BytesValue"]]
               /\ UNCHANGED <<mem, lastWriter>>
          ELSE /\ \E s \in DeviceStore(mem[reg.addr], data) :
                     /\ mem' = [mem EXCEPT ![reg.addr] = s]
                     /\ ctx' = [ctx EXCEPT ![c] =
                                  RegWriteReadable(
                                    [fr EXCEPT !.wr = data,
                                               !.dirty = (s # mem[reg.addr]),
                                               !.log = Append(@, <<"writeto_mem", DEV_ADDR, reg.addr>>)],
                                    reg)]
               /\ lastWriter' = c
    /\ UNCHANGED <<config, latch>>

\* Device.reg_write, lines 139-141.
DeviceRegWriteVerifyFrame(fr, reg) ==
    LET r == DeviceRegReadFrame(fr, reg) IN
    IF r.err # "none" THEN [r EXCEPT !.pc = "done"]
    ELSE IF r.ret # fr.value
         THEN [r EXCEPT !.pc = "done", !.ret = -1, !.err = "WriteVerification"]
         ELSE [r EXCEPT !.pc = "done", !.ret = -1]

DeviceRegWrite_Verify(c) ==
    /\ ctx[c].pc = "regw_verify"
    /\ ctx' = [ctx EXCEPT ![c] = DeviceRegWriteVerifyFrame(ctx[c], RegArg(ctx[c].fname))]
    /\ UNCHANGED <<config, mem, latch, lastWriter>>

NextDev ==
    \/ \E c \in Contexts : DeviceRead(c)
    \/ \E c \in Contexts, d \in RawValues : DeviceWrite(c, d)
    \/ \E c \in Contexts : DeviceWrite_Verify(c)
    \/ \E c \in Contexts, r \in RegArgNames : DeviceRegRead(c, r)
    \/ \E c \in Contexts, r \in RegArgNames : \E v \in RegValues : DeviceRegWrite(c, r, v)
    \/ \E c \in Contexts : DeviceRegWrite_Verify(c)
    \/ \E c \in Contexts, r \in DOMAIN registers : RegisterRead(c, r)
    \/ \E c \in Contexts, r \in DOMAIN registers :
         \E v \in WidthValues(registers[r]) : RegisterWrite(c, r, v)
    \/ \E c \in Contexts : RegisterWrite_Verify(c)

SpecDev == InitDev /\ [][NextDev]_vars

\* ------------------------------------------------------- BQ25756 driver
\* The accessors of the driver: the field each one reads or writes, the
\* bounds of its check_range, the step and the offset of its command branch
\* and the offset of its query branch.
Accessor ==
    [voltage_limit |->
        [field |-> "VFB_REG", lo |-> 1504, hi |-> 1566, step |-> 2, base |-> 1504, qbase |-> 1054],
     current_limit |->
        [field |-> "ICHG_REG", lo |-> 400, hi |-> 20000, step |-> 50, base |-> 0, qbase |-> 0],
     input_voltage_limit |->
        [field |-> "VAC_DPM", lo |-> 4200, hi |-> 65000, step |-> 20, base |-> 0, qbase |-> 0],
     input_current_limit |->
        [field |-> "IAC_DPM", lo |-> 400, hi |-> 20000, step |-> 50, base |-> 0, qbase |-> 0],
     precharge_current_limit |->
        [field |-> "PRECHG_REG", lo |-> 250, hi |-> 10000, step |-> 50, base |-> 0, qbase |-> 0],
     termination_current_limit |->
        [field |-> "ITERM_REG", lo |-> 250, hi |-> 10000, step |-> 50, base |-> 0, qbase |-> 0]]

\* The registers the accessors use, as add_register creates them: default
\* width, read/write.
BQRegisters ==
    [CHARGE_VOLT_LIMIT |-> [addr |-> 0, width |-> RegBits, r_w |-> "R/W"],
     CHARGE_CURR_LIMIT |-> [addr |-> 2, width |-> RegBits, r_w |-> "R/W"],
     INPUT_CURR_LIMIT  |-> [addr |-> 6, width |-> RegBits, r_w |-> "R/W"],
     INPUT_VOLT_LIMIT  |-> [addr |-> 8, width |-> RegBits, r_w |-> "R/W"],
     PRECHG_CURR_LIMIT |-> [addr |-> 16, width |-> RegBits, r_w |-> "R/W"],
     TERM_CURR_LIMIT   |-> [addr |-> 18, width |-> RegBits, r_w |-> "R/W"]]

\* Every add_field of the constructor.
BQFields ==
    [VFB_REG    |-> [register |-> "CHARGE_VOLT_LIMIT", bit_offset |-> 0, width |-> 5, r_w |-> "R/W"],
     ICHG_REG   |-> [register |-> "CHARGE_CURR_LIMIT", bit_offset |-> 2, width |-> 9, r_w |-> "R/W"],
     IAC_DPM    |-> [register |-> "INPUT_CURR_LIMIT", bit_offset |-> 2, width |-> 9, r_w |-> "R/W"],
     VAC_DPM    |-> [register |-> "INPUT_VOLT_LIMIT", bit_offset |-> 2, width |-> 12, r_w |-> "R/W"],
     PRECHG_REG |-> [register |-> "PRECHG_CURR_LIMIT", bit_offset |-> 2, width |-> 8, r_w |-> "R/W"],
     ITERM_REG  |-> [register |-> "TERM_CURR_LIMIT", bit_offset |-> 2, width |-> 8, r_w |-> "R/W"]]

\* The state after BQ25756(name, address, i2c_bus), on a device that stores
\* what is written.
InitBQ ==
    /\ i2c_bus = "I2C"
    /\ registers = BQRegisters
    /\ fields = BQFields
    /\ faithful = TRUE
    /\ \E b \in InitBytes :
         mem = [a \in {BQRegisters[r].addr : r \in DOMAIN BQRegisters} |-> b]
    /\ latch = 0
    /\ ctx = [c \in {1} |-> NoFrame]
    /\ lastWriter = 0
    /\ lcd = NoLcd

\* int(n / d) for d > 0: true division, then truncation toward zero.
IntOfQuotient(n, d) == IF n >= 0 THEN n \div d ELSE -((-n) \div d)

\* The command branch without the subtraction of the offset: int(v / step).
BitValue_NoBase(a, v) == IntOfQuotient(v, Accessor[a].step)

\* bit_value = int((v - base) / step)
BitValue(a, v) == IntOfQuotient(v - Accessor[a].base, Accessor[a].step)

\* The query branch: (bit_value * step) + offset
QueryValue(a, bit_value) == (bit_value * Accessor[a].step) + Accessor[a].qbase

\* An optional integer argument: None, or the integer v.
None == [none |-> TRUE, int |-> 0]

Some(v) == [none |-> FALSE, int |-> v]

\* check_range with the upper bound exclusive: min_value <= value < max_value.
CheckRange_ExclusiveMax(value, min_value, max_value) ==
    IF value.none THEN "none"
    ELSE IF ~(min_value <= value.int /\ value.int < max_value) THEN "Range"
    ELSE "none"

\* helpers.check_range: None returns at once; otherwise a ValueError unless
\* min_value <= value <= max_value.
CheckRange(value, min_value, max_value) ==
    IF value.none THEN "none"
    ELSE IF ~(min_value <= value.int /\ value.int <= max_value) THEN "Range"
    ELSE "none"

\* check_range(value, name, lo, hi) as accessor a calls it
InRange(a, v) == CheckRange(Some(v), Accessor[a].lo, Accessor[a].hi) = "none"

\* Arguments a caller hands to accessor a: every integer from just below to
\* just above the range of voltage_limit; for the others the ends of the
\* range and the first integers outside it.
AccessorArgs(a) ==
    IF a = "voltage_limit" THEN (Accessor[a].lo - 1)..(Accessor[a].hi + 1)
    ELSE {Accessor[a].lo - 1, Accessor[a].lo, Accessor[a].hi, Accessor[a].hi + 1}

\* The argument of the immediately preceding call of the context, if that
\* was a command of accessor a that returned normally (history).
PrecedingCommand(c, a) ==
    IF ctx[c].pc = "done" /\ ctx[c].acc = a /\ ctx[c].op = "Field.write"
       /\ ctx[c].err = "none"
    THEN ctx[c].arg ELSE -1

\* accessor(v): check_range, the conversion, and the entry of Field.write.
AccessorCommand(c, a, v) ==
    /\ Ready(c)
    /\ ctx' = [ctx EXCEPT ![c] =
                 IF ~InRange(a, v)
                 THEN [Frame("check_range", "-", 0) EXCEPT !.acc = a, !.arg = v, !.err = "Range"]
                 ELSE FieldWriteChecks(
                        [Frame("Field.write", Accessor[a].field, BitValue(a, v))
                           EXCEPT !.acc = a, !.arg = v],
                        fields[Accessor[a].field])]
    /\ UNCHANGED <<config, mem, latch, lastWriter>>

\* accessor(): Field.read and the conversion of what it returns.
AccessorQuery(c, a) ==
    /\ Ready(c)
    /\ ctx' = [ctx EXCEPT ![c] =
                 LET fr == FieldReadFrame(
                             [Frame("Field.read", Accessor[a].field, 0)
                                EXCEPT !.acc = a, !.pwarg = PrecedingCommand(c, a)],
                             fields[Accessor[a].field])
                 IN IF fr.err = "none" THEN [fr EXCEPT !.ret = QueryValue(a, fr.ret)] ELSE fr]
    /\ UNCHANGED <<config, mem, latch, lastWriter>>

NextBQ ==
    \/ \E c \in Contexts, a \in DOMAIN Accessor :
         \E v \in AccessorArgs(a) : AccessorCommand(c, a, v)
    \/ \E c \in Contexts, a \in DOMAIN Accessor : AccessorQuery(c, a)
    \/ \E c \in Contexts : FieldWrite_RegRead(c)
    \/ \E c \in Contexts : FieldWrite_Write(c)
    \/ \E c \in Contexts : FieldWrite_Verify(c)

SpecBQ == InitBQ /\ [][NextBQ]_vars

\* ------------------------------------------------------- construction
\* Names, widths and permission tags handed to add_register and add_field.
\* "RW" is a string outside _RW_TYPE.
BuildNames == {"REG", "AUX"}

BuildAddr(n) == IF n = "REG" THEN REG_ADDR ELSE NEXT_ADDR

BuildWidths == {0, 6, 8, 16}

BuildTags == _RW_TYPE \cup {"RW"}

\* The names of the fields added to register r.
BuildFieldNames(r) == IF r = "REG" THEN {"F1"} ELSE {"G1"}

\* A one-bit flag, and a 3-bit field at offset 6.
BuildGeometries == {[bit_offset |-> 0, width |-> 1], [bit_offset |-> 6, width |-> 3]}

\* A Device just constructed, with or without a bus: no registers yet.
InitBuild ==
    /\ i2c_bus \in {"I2C", "None"}
    /\ registers = [n \in {} |-> 0]
    /\ fields = [n \in {} |-> 0]
    /\ faithful = TRUE
    /\ mem = [a \in MemAddrs |-> OtherByte]
    /\ latch = 0
    /\ ctx = [c \in {1} |-> NoFrame]
    /\ lastWriter = 0
    /\ lcd = NoLcd

\* The check without its first operand: width & (width-1) != 0 alone, which
\* lets 0 through (0 & -1 is 0).
WidthRejected_ZeroPasses(w) == IF w < 0 THEN TRUE ELSE (w > 0 /\ BitAnd(w, w - 1) # 0)

\* Lines 171-172: width == 0 or width & (width-1) != 0.  For a negative
\* width both operands of & are negative, and so is the result.
WidthRejected(w) == w = 0 \/ (IF w < 0 THEN TRUE ELSE BitAnd(w, w - 1) # 0)

\* Device.add_register (lines 102-105) with Register.__init__ (lines 160-181):
\* the width check, the assignments (r_w is stored as given, line 177), the
\* copy of device.i2c_bus, which does not exist on a device without a bus,
\* and the entry in Device.registers, which replaces an earlier register of
\* the same name together with the fields that one owned.
AddRegister(c, n, w, t) ==
    /\ Ready(c)
    /\ LET fr == [Frame("add_register", n, w)
                    EXCEPT !.tag = t,
                           !.prior = IF n \in DOMAIN registers THEN registers[n]
                                     ELSE NoRegister] IN
       IF WidthRejected(w)
       THEN /\ ctx' = [ctx EXCEPT ![c] = [fr EXCEPT !.err = "ValueError"]]
            /\ UNCHANGED <<registers, fields>>
       ELSE IF i2c_bus = "None"
       THEN /\ ctx' = [ctx EXCEPT ![c] = [fr EXCEPT !.err = "AttributeError"]]
            /\ UNCHANGED <<registers, fields>>
       ELSE /\ ctx' = [ctx EXCEPT ![c] = fr]
            /\ registers' = [k \in DOMAIN registers \cup {n} |->
                               IF k = n THEN [addr |-> BuildAddr(n), width |-> w, r_w |-> t]
                               ELSE registers[k]]
            /\ fields' = [f \in {g \in DOMAIN fields : fields[g].register # n} |-> fields[f]]
    /\ UNCHANGED <<i2c_bus, faithful, mem, latch, lastWriter, lcd>>

\* Register.add_field (lines 197-200) with Field.__init__ (lines 277-295):
\* the permission tag is checked (lines 285-286), the geometry is not.
AddField(c, r, f, g, t) ==
    /\ Ready(c)
    /\ LET fr == [Frame("add_field", f, g.width) EXCEPT !.tag = t] IN
       IF t \notin _RW_TYPE
       THEN /\ ctx' = [ctx EXCEPT ![c] = [fr EXCEPT !.err = "ValueError"]]
            /\ UNCHANGED fields
       ELSE /\ ctx' = [ctx EXCEPT ![c] = fr]
            /\ fields' = [k \in DOMAIN fields \cup {f} |->
                            IF k = f THEN [register |-> r, bit_offset |-> g.bit_offset,
                                           width |-> g.width, r_w |-> t]
                            ELSE fields[k]]
    /\ UNCHANGED <<i2c_bus, registers, faithful, mem, latch, lastWriter, lcd>>

NextBuild ==
    \/ \E c \in Contexts, n \in BuildNames, w \in BuildWidths, t \in BuildTags :
         AddRegister(c, n, w, t)
    \/ \E c \in Contexts, r \in DOMAIN registers :
         \E f \in BuildFieldNames(r), g \in BuildGeometries, t \in BuildTags :
            AddField(c, r, f, g, t)

SpecBuild == InitBuild /\ [][NextBuild]_vars

\* ------------------------------------------------- register widths
\* The widths handed to add_register: every integer from -MaxCtorWidth to
\* MaxCtorWidth.
MaxCtorWidth == 17

CtorWidths == (0 - MaxCtorWidth)..MaxCtorWidth

NextCtor ==
    \E c \in Contexts, n \in BuildNames, w \in CtorWidths : AddRegister(c, n, w, "R/W")

SpecCtor == InitBuild /\ [][NextCtor]_vars

\* ------------------------------------------- one write on any register byte
\* read_modify without the clearing: read_data | (modify_data & bit_mask)
ReadModify_NoClear(read_data, modify_data, bit_mask) ==
    BitOrNat(read_data, BitAnd(modify_data, bit_mask))

\* read_modify without the restriction of modify_data to the mask:
\* (read_data & ~bit_mask) | modify_data
ReadModify_DataUnmasked(read_data, modify_data, bit_mask) ==
    BitOrNat(AndNot(read_data, bit_mask), modify_data)

\* (read_data & ~bit_mask) | (modify_data & bit_mask), helpers.read_modify,
\* for arguments >= 0.
ReadModify(read_data, modify_data, bit_mask) ==
    BitOrNat(AndNot(read_data, bit_mask), BitAnd(modify_data, bit_mask))

\* Every byte a register can hold.
AnyBytes == 0..ByteMax

\* A read/write field inside its read/write 8-bit register, over any register
\* byte, on a device that stores what is written.
InitRMW ==
    /\ i2c_bus = "I2C"
    /\ registers = [n \in {"REG"} |-> [addr |-> REG_ADDR, width |-> RegBits, r_w |-> "R/W"]]
    /\ \E g \in {h \in Geometries : h.bit_offset + h.width <= RegBits} :
         fields = [n \in {"F1"} |->
                     [register |-> "REG", bit_offset |-> g.bit_offset,
                      width |-> g.width, r_w |-> "R/W"]]
    /\ faithful = TRUE
    /\ \E b \in AnyBytes : mem = [a \in MemAddrs |-> IF a = REG_ADDR THEN b ELSE OtherByte]
    /\ latch = 0
    /\ ctx = [c \in {1} |-> NoFrame]
    /\ lastWriter = 0
    /\ lcd = NoLcd

\* One call of Field.write, run to its end.
NextRMW ==
    \/ \E c \in Contexts, f \in DOMAIN fields :
         \E v \in FieldValues(fields[f]) : ctx[c].pc = "idle" /\ FieldWrite(c, f, v)
    \/ \E c \in Contexts : FieldWrite_RegRead(c)
    \/ \E c \in Contexts : FieldWrite_Write(c)
    \/ \E c \in Contexts : FieldWrite_Verify(c)

SpecRMW == InitRMW /\ [][NextRMW]_vars

\* ------------------------------------------------------ helper functions
\* Values handed to read_modify as modify_data and bit_mask: together they
\* put every combination of (modify bit, mask bit) at every bit position.
RMSamples == {0, 28, 90, 165, 240, 255}

\* A call of read_modify(read_data, modify_data, bit_mask) about to be made.
InitReadModify ==
    /\ i2c_bus = "I2C"
    /\ registers = [n \in {} |-> 0]
    /\ fields = [n \in {} |-> 0]
    /\ faithful = TRUE
    /\ mem = [a \in MemAddrs |-> OtherByte]
    /\ latch = 0
    /\ \E r \in AnyBytes, m \in RMSamples, k \in RMSamples :
         ctx = [c \in {1} |-> [NoFrame EXCEPT !.op = "read_modify", !.args = <<r, m, k>>]]
    /\ lastWriter = 0
    /\ lcd = NoLcd

ReadModifyApply(c) ==
    /\ ctx[c].pc = "idle" /\ ctx[c].op = "read_modify"
    /\ ctx' = [ctx EXCEPT ![c] =
                 [ctx[c] EXCEPT !.pc = "done",
                                !.ret = ReadModify(ctx[c].args[1], ctx[c].args[2],
                                                   ctx[c].args[3])]]
    /\ UNCHANGED <<config, mem, latch, lastWriter>>

\* The (min_value, max_value) pairs check_range is called with: the six
\* accessors of BQ25756, and rows, columns and status of Hd44780.
Ranges ==
    {<<Accessor[a].lo, Accessor[a].hi>> : a \in DOMAIN Accessor}
    \cup {<<1, 4>>, <<8, 40>>, <<0, 1>>}

\* Values handed to check_range with the pair rg: None, the ends of the
\* range and the integers next to them on both sides.
RangeArgs(rg) ==
    {None} \cup {Some(v) : v \in {rg[1] - 1, rg[1], rg[1] + 1, rg[2] - 1, rg[2], rg[2] + 1}}

\* A call of check_range(value, name, min_value, max_value) about to be made.
InitCheckRange ==
    /\ i2c_bus = "I2C"
    /\ registers = [n \in {} |-> 0]
    /\ fields = [n \in {} |-> 0]
    /\ faithful = TRUE
    /\ mem = [a \in MemAddrs |-> OtherByte]
    /\ latch = 0
    /\ \E rg \in Ranges : \E v \in RangeArgs(rg) :
         ctx = [c \in {1} |-> [NoFrame EXCEPT !.op = "check_range", !.args = <<v, rg[1], rg[2]>>]]
    /\ lastWriter = 0
    /\ lcd = NoLcd

CheckRangeApply(c) ==
    /\ ctx[c].pc = "idle" /\ ctx[c].op = "check_range"
    /\ ctx' = [ctx EXCEPT ![c] =
                 [ctx[c] EXCEPT !.pc = "done",
                                !.err = CheckRange(ctx[c].args[1], ctx[c].args[2],
                                                   ctx[c].args[3])]]
    /\ UNCHANGED <<config, mem, latch, lastWriter>>

InitPure == InitReadModify \/ InitCheckRange

NextPure ==
    \/ \E c \in Contexts : ReadModifyApply(c)
    \/ \E c \in Contexts : CheckRangeApply(c)

SpecPure == InitPure /\ [][NextPure]_vars

\* The commands of the accessors, and check_range on its own.
InitRange == InitBQ \/ InitCheckRange

\* Arguments handed to accessor a: the ends of its range and the first
\* integers outside it.
CommandArgs(a) == {Accessor[a].lo - 1, Accessor[a].lo, Accessor[a].hi, Accessor[a].hi + 1}

NextRange ==
    \/ \E c \in Contexts, a \in DOMAIN Accessor :
         \E v \in CommandArgs(a) : DOMAIN fields # {} /\ AccessorCommand(c, a, v)
    \/ \E c \in Contexts : FieldWrite_RegRead(c)
    \/ \E c \in Contexts : FieldWrite_Write(c)
    \/ \E c \in Contexts : FieldWrite_Verify(c)
    \/ \E c \in Contexts : CheckRangeApply(c)

SpecRange == InitRange /\ [][NextRange]_vars

\* ------------------------------------------------ one caller, many calls
\* The value of field f after the calls made so far: what the latest
\* Field.write on f that returned normally was given, or else what the frame
\* carries from before that call (history).
Expected(c, f) ==
    IF ctx[c].pc = "done" /\ ctx[c].op = "Field.write" /\ ctx[c].fname = f
       /\ ctx[c].err = "none"
    THEN ctx[c].value ELSE ctx[c].last[f]

Latest(c) == [f \in DOMAIN fields |-> Expected(c, f)]

\* One context, two non-overlapping read/write fields on a read/write
\* register of a device that stores what is written.
InitSerial ==
    /\ i2c_bus = "I2C"
    /\ registers = [n \in {"REG"} |-> [addr |-> REG_ADDR, width |-> RegBits, r_w |-> "R/W"]]
    /\ \E l \in ConcLayouts :
         fields = [n \in {"F1", "F2"} |->
                     LET g == IF n = "F1" THEN l[1] ELSE l[2] IN
                     [register |-> "REG", bit_offset |-> g.bit_offset,
                      width |-> g.width, r_w |-> "R/W"]]
    /\ faithful = TRUE
    /\ \E b \in InitBytes : mem = [a \in MemAddrs |-> IF a = REG_ADDR THEN b ELSE OtherByte]
    /\ latch = 0
    /\ ctx = [c \in {1} |->
                [NoFrame EXCEPT !.last = [f \in DOMAIN fields |->
                                            FieldExtract(fields[f], mem[REG_ADDR])]]]
    /\ lastWriter = 0
    /\ lcd = NoLcd

\* The entry of Field.write (lines 325-335), made when the previous call of
\* the context has ended.
SerialFieldWrite(c, f, v) ==
    /\ Ready(c)
    /\ ctx' = [ctx EXCEPT ![c] =
                 [FieldWriteChecks(Frame("Field.write", f, v), fields[f])
                    EXCEPT !.last = Latest(c)]]
    /\ UNCHANGED <<config, mem, latch, lastWriter>>

\* Field.read, made when the previous call of the context has ended.
SerialFieldRead(c, f) ==
    /\ Ready(c)
    /\ ctx' = [ctx EXCEPT ![c] =
                 FieldReadFrame([Frame("Field.read", f, 0) EXCEPT !.last = Latest(c)],
                                fields[f])]
    /\ UNCHANGED <<config, mem, latch, lastWriter>>

NextSerial ==
    \/ \E c \in Contexts, f \in DOMAIN fields :
         \E v \in FieldValues(fields[f]) : SerialFieldWrite(c, f, v)
    \/ \E c \in Contexts : FieldWrite_RegRead(c)
    \/ \E c \in Contexts : FieldWrite_Write(c)
    \/ \E c \in Contexts : FieldWrite_Verify(c)
    \/ \E c \in Contexts, f \in DOMAIN fields : SerialFieldRead(c, f)

SpecSerial == InitSerial /\ [][NextSerial]_vars

\* ------------------------------------------------------------- Hd44780
\* rows and columns handed to the constructor: check_range admits 1..4 and
\* 8..40.
RowArgs == 0..5

ColumnArgs == {7, 8, 16, 40, 41}

\* Characters handed to print and fast_print.
Chars == {"A", "\n"}

\* What Device.write raises when called with read_check=False (hd44780.py
\* lines 184, 188, 323): its signature is write(self, data), line 72 of
\* i2c_device.py.
ReadCheckError == "TypeError"

\* A working bus with the I/O expander on it; no Hd44780 object yet.
InitLcd ==
    /\ i2c_bus = "I2C"
    /\ registers = [n \in {} |-> 0]
    /\ fields = [n \in {} |-> 0]
    /\ faithful \in BOOLEAN
    /\ mem = [a \in MemAddrs |-> OtherByte]
    /\ latch \in {0, OtherByte}
    /\ ctx = [c \in {1} |-> NoFrame]
    /\ lastWriter = 0
    /\ lcd = NoLcd

\* Hd44780.__init__, lines 103-116, and the first statement of _lcd_init,
\* self.write(0) (line 135), up to the transport write of Device.write.
Hd44780Init(c, rows, columns) ==
    /\ Ready(c)
    /\ lcd = NoLcd
    /\ LET fr == [Frame("Hd44780.__init__", "-", 0) EXCEPT !.args = <<rows, columns>>] IN
       IF CheckRange(Some(rows), 1, 4) # "none" \/ CheckRange(Some(columns), 8, 40) # "none"
       THEN /\ ctx' = [ctx EXCEPT ![c] = [fr EXCEPT !.err = "Range"]]
            /\ UNCHANGED <<lcd, latch>>
       ELSE /\ lcd' = [rows |-> rows, columns |-> columns, x |-> 0, y |-> 0, backlight |-> 1]
            /\ \E s \in DeviceStore(latch, 0) :
                 /\ latch' = s
                 /\ ctx' = [ctx EXCEPT ![c] =
                              [fr EXCEPT !.pc = "init_verify",
                                         !.wr = 0,
                                         !.dirty = (s # latch),
                                         !.log = Append(@, <<"writeto", DEV_ADDR, -1>>)]]
    /\ UNCHANGED <<i2c_bus, registers, fields, faithful, mem, lastWriter>>

\* The readback of that Device.write (lines 86-88), and the statement after
\* it: _strobe_data (line 139), whose first line calls
\* self.write(..., read_check=False).
Hd44780InitVerifyFrame(fr) ==
    LET r == DeviceWriteVerifyFrame(fr) IN
    IF r.err # "none" THEN r ELSE [r EXCEPT !.err = ReadCheckError]

Hd44780Init_Verify(c) ==
    /\ ctx[c].pc = "init_verify"
    /\ ctx' = [ctx EXCEPT ![c] = Hd44780InitVerifyFrame(ctx[c])]
    /\ UNCHANGED <<config, mem, latch, lastWriter>>

\* The object exists once __init__ has assigned its attributes.
Constructed == lcd # NoLcd

\* A frame for a method of the display; args keeps the cursor the call found.
LcdFrame(op, v) == [Frame(op, "-", v) EXCEPT !.args = <<lcd.x, lcd.y>>]

\* _strobe_data, lines 184-188: the first self.write raises before anything
\* reaches the bus.
StrobeDataFrame(fr) == [fr EXCEPT !.err = ReadCheckError]

StrobeData(c, data) ==
    /\ Ready(c) /\ Constructed
    /\ ctx' = [ctx EXCEPT ![c] = StrobeDataFrame(LcdFrame("_strobe_data", data))]
    /\ UNCHANGED <<config, mem, latch, lastWriter>>

\* self._y = 0 if self._y >= self.rows else self._y
WrapRow(y) == IF y >= lcd.rows THEN 0 ELSE y

\* fast_print(ch) and _fast_putch, lines 194-205: _write_data comes first and
\* fails in _strobe_data, so the cursor arithmetic after it is not reached.
FastPutch(c, ch) ==
    /\ Ready(c) /\ Constructed
    /\ LET fr == StrobeDataFrame([LcdFrame("fast_print", 0) EXCEPT !.fname = ch]) IN
       /\ ctx' = [ctx EXCEPT ![c] = fr]
       /\ lcd' = IF fr.err # "none" THEN lcd
                 ELSE LET x1 == lcd.x + 1
                          y1 == IF x1 >= lcd.columns THEN lcd.y + 1 ELSE lcd.y
                      IN [lcd EXCEPT !.x = IF x1 >= lcd.columns THEN 0 ELSE x1,
                                     !.y = WrapRow(y1)]
    /\ UNCHANGED <<i2c_bus, registers, fields, faithful, mem, latch, lastWriter>>

\* print(ch) and _putch, lines 210-229: a character goes to _write_data
\* first; a newline changes the cursor (lines 217-226) and then fails in
\* move_to, which stores the cursor (lines 333-334) before its _write_cmd.
Putch(c, ch) ==
    /\ Ready(c) /\ Constructed
    /\ LET fr == StrobeDataFrame([LcdFrame("print", 0) EXCEPT !.fname = ch]) IN
       /\ ctx' = [ctx EXCEPT ![c] = fr]
       /\ lcd' = IF ch # "\n" /\ fr.err # "none" THEN lcd
                 ELSE LET x1 == IF ch # "\n" THEN lcd.x + 1 ELSE lcd.columns
                          y1 == IF x1 >= lcd.columns THEN lcd.y + 1 ELSE lcd.y
                      IN [lcd EXCEPT !.x = IF x1 >= lcd.columns THEN 0 ELSE x1,
                                     !.y = WrapRow(y1)]
    /\ UNCHANGED <<i2c_bus, registers, fields, faithful, mem, latch, lastWriter>>

\* newline, lines 370-380: the cursor changes, then move_to fails in _write_cmd.
Newline(c) ==
    /\ Ready(c) /\ Constructed
    /\ ctx' = [ctx EXCEPT ![c] = StrobeDataFrame(LcdFrame("newline", 0))]
    /\ lcd' = [lcd EXCEPT !.x = 0, !.y = WrapRow(lcd.y + 1)]
    /\ UNCHANGED <<i2c_bus, registers, fields, faithful, mem, latch, lastWriter>>

\* carriage_return, lines 388-391.
CarriageReturn(c) ==
    /\ Ready(c) /\ Constructed
    /\ ctx' = [ctx EXCEPT ![c] = StrobeDataFrame(LcdFrame("carriage_return", 0))]
    /\ lcd' = [lcd EXCEPT !.x = 0]
    /\ UNCHANGED <<i2c_bus, registers, fields, faithful, mem, latch, lastWriter>>

\* line_feed, lines 399-406.
LineFeed(c) ==
    /\ Ready(c) /\ Constructed
    /\ ctx' = [ctx EXCEPT ![c] = StrobeDataFrame(LcdFrame("line_feed", 0))]
    /\ lcd' = [lcd EXCEPT !.y = WrapRow(lcd.y + 1)]
    /\ UNCHANGED <<i2c_bus, registers, fields, faithful, mem, latch, lastWriter>>

\* home, lines 244-247: _write_cmd comes first and fails; the cursor is not reset.
Home(c) ==
    /\ Ready(c) /\ Constructed
    /\ LET fr == StrobeDataFrame(LcdFrame("home", 0)) IN
       /\ ctx' = [ctx EXCEPT ![c] = fr]
       /\ lcd' = IF fr.err # "none" THEN lcd ELSE [lcd EXCEPT !.x = 0, !.y = 0]
    /\ UNCHANGED <<i2c_bus, registers, fields, faithful, mem, latch, lastWriter>>

\* Bytes handed to _strobe_data: the reset nibble, and a data nibble with RS
\* and the backlight bit.
StrobeBytes == {48, 73}

NextLcd ==
    \/ \E c \in Contexts, rows \in RowArgs, columns \in ColumnArgs : Hd44780Init(c, rows, columns)
    \/ \E c \in Contexts : Hd44780Init_Verify(c)
    \/ \E c \in Contexts, d \in StrobeBytes : StrobeData(c, d)
    \/ \E c \in Contexts, ch \in Chars : FastPutch(c, ch)
    \/ \E c \in Contexts, ch \in Chars : Putch(c, ch)
    \/ \E c \in Contexts : Newline(c)
    \/ \E c \in Contexts : CarriageReturn(c)
    \/ \E c \in Contexts : LineFeed(c)
    \/ \E c \in Contexts : Home(c)

SpecLcd == InitLcd /\ [][NextLcd]_vars

\* ================================================================ claims
Inside(fld) == fld.r_w = "R/W" /\ registers[fld.register].r_w = "R/W" /\ Contained(fld)

IsGeometry(fld, off, w) == fld.bit_offset = off /\ fld.width = w

\* C1 (round trip): on a device that stores what is written, Field.write(v)
\* with 0 <= v <= 2^w - 1 on a read/write field lying inside its read/write
\* 8-bit register returns without error, and the Field.read that follows it
\* returns v.
C1_RoundTrip ==
    \A c \in Contexts :
        LET fr == ctx[c] IN
        /\ (/\ fr.op = "Field.write" /\ fr.pc = "done" /\ faithful
            /\ Inside(fields[fr.fname])
            /\ fr.value \in 0..(Pow2(fields[fr.fname].width) - 1))
           => fr.err = "none"
        /\ (/\ fr.op = "Field.read" /\ fr.pw >= 0 /\ faithful
            /\ Inside(fields[fr.fname]))
           => (fr.err = "none" /\ fr.ret = fr.pw)

C1_Witness ==
    \E c \in Contexts :
        /\ ctx[c].op = "Field.read" /\ ctx[c].pw = 5 /\ ctx[c].ret = 5
        /\ faithful
        /\ Inside(fields[ctx[c].fname])
        /\ IsGeometry(fields[ctx[c].fname], 5, 3)

\* C2 (frame of the write): whenever Field.write has issued its transport
\* write, the byte written equals the byte read in step 1 at every bit
\* position outside [bit_offset, bit_offset + width).
C2_OnlyFieldBitsChange ==
    \A c \in Contexts :
        LET fr == ctx[c] IN
        (fr.op = "Field.write" /\ fr.wr >= 0) =>
            \A k \in 0..(RegBits - 1) :
                (k < fields[fr.fname].bit_offset
                 \/ k >= fields[fr.fname].bit_offset + fields[fr.fname].width)
                => BitAt(fr.wr, k) = BitAt(fr.rd, k)

C2_Witness ==
    \E c \in Contexts :
        /\ ctx[c].op = "Field.write" /\ ctx[c].wr >= 0
        /\ ctx[c].rd = 172 /\ ctx[c].wr # ctx[c].rd
        /\ IsGeometry(fields[ctx[c].fname], 4, 2)

\* The write of the mask-isolation example has returned: 5 written to the
\* 3-bit field at offset 2 of a register that held 0b1010_1100.
ExampleWritten(c) ==
    /\ ctx[c].op = "Field.write" /\ ctx[c].pc = "done" /\ ctx[c].err = "none"
    /\ faithful
    /\ IsGeometry(fields[ctx[c].fname], 2, 3)
    /\ ctx[c].value = 5 /\ ctx[c].rd = 172

\* C3 as stated: after the example's write the register holds 0b1001_0100 (148).
C3_AsStated ==
    \A c \in Contexts : ExampleWritten(c) => mem[REG_ADDR] = 148

\* C3 (mask isolation example, amended): with the register holding
\* 0b1010_1100 the 3-bit field at offset 2 reads 3; writing 5 to it leaves
\* the register at 0b1011_0100 (180), bits 0-1 and 5-7 as they were.
C3_MaskIsolation ==
    \A c \in Contexts :
        /\ (/\ ctx[c].op = "Field.read" /\ ctx[c].err = "none" /\ ctx[c].rb = 172
            /\ IsGeometry(fields[ctx[c].fname], 2, 3))
           => ctx[c].ret = 3
        /\ ExampleWritten(c) =>
              /\ mem[REG_ADDR] = 180
              /\ \A k \in {0, 1, 5, 6, 7} : BitAt(mem[REG_ADDR], k) = BitAt(172, k)

C3_Witness ==
    \E c \in Contexts : ExampleWritten(c) /\ mem[REG_ADDR] = 180

\* C4: Field.write on a ReadOnly field fails with the permission error for
\* every value, and issues no transport call.
C4_ReadOnlyFieldWrite ==
    \A c \in Contexts :
        (ctx[c].op = "Field.write" /\ fields[ctx[c].fname].r_w = "R") =>
            /\ ctx[c].pc = "done"
            /\ ctx[c].err = "Permission"
            /\ ctx[c].log = <<>>
            /\ ~ctx[c].dirty

C4_Witness ==
    \E c \in Contexts :
        /\ ctx[c].op = "Field.write" /\ fields[ctx[c].fname].r_w = "R"
        /\ registers[fields[ctx[c].fname].register].r_w = "R/W"
        /\ ctx[c].value = 1
        /\ ctx[c].err = "Permission" /\ ctx[c].log = <<>>

\* C5: Field.read on a WriteOnly field fails with the permission error and
\* issues no transport read.
C5_WriteOnlyFieldRead ==
    \A c \in Contexts :
        (ctx[c].op = "Field.read" /\ fields[ctx[c].fname].r_w = "W") =>
            /\ ctx[c].err = "Permission"
            /\ ctx[c].log = <<>>
            /\ ctx[c].ret = -1

C5_Witness ==
    \E c \in Contexts :
        /\ ctx[c].op = "Field.read" /\ fields[ctx[c].fname].r_w = "W"
        /\ registers[fields[ctx[c].fname].register].r_w = "R/W"
        /\ ctx[c].err = "Permission" /\ ctx[c].log = <<>>

\* C6 (range enforcement): Field.write(2^w) on a writable w-bit field fails
\* with the value-too-large error, the kind Register.write raises for an
\* oversized value, and issues no transport call.
C6_RangeEnforcement ==
    \A c \in Contexts :
        (/\ ctx[c].op = "Field.write"
         /\ fields[ctx[c].fname].r_w \in _WRITE
         /\ ctx[c].value = Pow2(fields[ctx[c].fname].width))
        => (ctx[c].err = "ValueTooLarge" /\ ctx[c].log = <<>>)

\* C7 (verification failure surfaces): once Device.write, Register.write on
\* a readable register, or Field.write has issued its transport write, it
\* returns normally only if a readback was made and agreed with the value:
\* the byte read back for Device.write and Register.write, the field
\* extracted from the byte read back for Field.write.  A readback that
\* disagrees ends the call with the write-verification error.
C7_VerificationSurfaces ==
    \A c \in Contexts :
        LET fr == ctx[c] IN
        (fr.pc = "done" /\ fr.wr >= 0) =>
            /\ fr.op = "Device.write" =>
                 /\ fr.rb >= 0
                 /\ fr.rb # fr.value => fr.err = "WriteVerification"
            /\ (fr.op = "Register.write" /\ registers[fr.fname].r_w \in _READ) =>
                 /\ fr.rb >= 0
                 /\ fr.rb # fr.value => fr.err = "WriteVerification"
            /\ fr.op = "Field.write" =>
                 /\ fr.rb < 0 => fr.err # "none"
                 /\ (fr.rb >= 0 /\ FieldExtract(fields[fr.fname], fr.rb) # fr.value)
                    => fr.err = "WriteVerification"

C7_Witness ==
    \E c \in Contexts :
        /\ ctx[c].op = "Field.write" /\ ctx[c].pc = "done"
        /\ ctx[c].wr >= 0 /\ ctx[c].rb >= 0
        /\ FieldExtract(fields[ctx[c].fname], ctx[c].rb) # ctx[c].value
        /\ ctx[c].err = "WriteVerification"

RegisterOrFieldOp(fr) ==
    fr.op \in {"Field.read", "Field.write", "Register.read", "Register.write"}

\* C8: a Register or Field operation that fails with the permission error
\* has issued no transport call, whatever the permissions of the field and
\* of its parent register.
C8_PermissionBeforeIO ==
    \A c \in Contexts :
        (RegisterOrFieldOp(ctx[c]) /\ ctx[c].err = "Permission") => ctx[c].log = <<>>

\* The declared width of the target of a write.
TargetWidth(fr) ==
    IF fr.op = "Field.write" THEN fields[fr.fname].width ELSE registers[fr.fname].width

\* C9: a Field.write or Register.write that fails because of permission, or
\* because the value does not fit the declared width, leaves the device's
\* register memory as it was before the call (on a device that stores
\* exactly what it is sent, so that only the handler decides).
C9_ValidationFailuresAreNoOps ==
    \A c \in Contexts :
        LET fr == ctx[c] IN
        (/\ fr.op \in {"Field.write", "Register.write"} /\ fr.pc = "done"
         /\ faithful
         /\ \/ fr.err = "Permission"
            \/ (fr.err # "none" /\ fr.value > Pow2(TargetWidth(fr)) - 1))
        => ~fr.dirty

Overlap(f, g) ==
    /\ f.bit_offset < g.bit_offset + g.width
    /\ g.bit_offset < f.bit_offset + f.width

\* C10 (lost update): with two contexts running Field.write unserialized on
\* a device that stores what is written, the register's sibling fields hold,
\* after the latest bus write, what that writer read in its step 1: whatever
\* another context wrote to a sibling field between that read and that write
\* is gone.  C10_Witness is the interleaving of the claim: both calls have
\* returned without error and the first writer's value is no longer there.
C10_WriterImposesItsSnapshot ==
    \A c \in Contexts :
        LET fr == ctx[c] IN
        (fr.op = "Field.write" /\ fr.wr >= 0 /\ lastWriter = c) =>
            \A g \in DOMAIN fields :
                ~Overlap(fields[g], fields[fr.fname]) =>
                    FieldExtract(fields[g], mem[REG_ADDR]) = FieldExtract(fields[g], fr.rd)

C10_Witness ==
    /\ Contexts = {1, 2}
    /\ \A c \in Contexts :
         ctx[c].op = "Field.write" /\ ctx[c].pc = "done" /\ ctx[c].err = "none"
    /\ ctx[1].fname # ctx[2].fname
    /\ ~Overlap(fields[ctx[1].fname], fields[ctx[2].fname])
    /\ lastWriter = 2
    /\ FieldExtract(fields[ctx[1].fname], ctx[2].rd) # ctx[1].value
    /\ FieldExtract(fields[ctx[1].fname], mem[REG_ADDR]) # ctx[1].value

\* C11 (Device.reg_write): on a device that stores what is written,
\* reg_write of a byte to a readable register writes that byte at
\* register.addr, re-reads the register, and returns without error.
C11_RegWriteReturns ==
    \A c \in Contexts :
        LET fr == ctx[c] IN
        (/\ fr.op = "Device.reg_write" /\ fr.pc = "done"
         /\ i2c_bus = "I2C" /\ faithful
         /\ BytesOk(fr.value)
         /\ RegArg(fr.fname).r_w \in _READ)
        => /\ fr.err = "none"
           /\ fr.log = << <<"writeto_mem", DEV_ADDR, RegArg(fr.fname).addr>>,
                          <<"readfrom_mem", DEV_ADDR, RegArg(fr.fname).addr>> >>

\* C12 (raw write): with a bus attached, Device.write(value) of a byte issues
\* one writeto of that byte to the device address, then one one-byte readfrom
\* of the same address, and nothing else; it returns normally exactly when
\* the byte read back equals value, and fails with the write-verification
\* error otherwise.
C12_RawWriteProtocol ==
    \A c \in Contexts :
        LET fr == ctx[c] IN
        (fr.op = "Device.write" /\ i2c_bus = "I2C" /\ BytesOk(fr.value)) =>
            /\ fr.pc \in {"dw_verify", "done"}
            /\ fr.wr = fr.value
            /\ fr.pc = "dw_verify" => fr.log = << <<"writeto", DEV_ADDR, -1>> >>
            /\ fr.pc = "done" =>
                 /\ fr.log = << <<"writeto", DEV_ADDR, -1>>, <<"readfrom", DEV_ADDR, -1>> >>
                 /\ fr.err \in {"none", "WriteVerification"}
                 /\ (fr.err = "none") <=> (fr.rb = fr.value)

C12_Witness ==
    \E c \in Contexts :
        /\ ctx[c].op = "Device.write" /\ ctx[c].pc = "done"
        /\ ctx[c].value = 12 /\ ctx[c].rb = 12 /\ ctx[c].err = "none"
        /\ Len(ctx[c].log) = 2

\* C13 (no transport attached): on a Device constructed with i2c_bus None,
\* Device.read and Device.reg_read fail with the bus-not-ready error and
\* issue no transport call.
C13_NoBusIsBusNotReady ==
    \A c \in Contexts :
        LET fr == ctx[c] IN
        (/\ i2c_bus = "None" /\ fr.pc = "done"
         /\ fr.op \in {"Device.read", "Device.reg_read"})
        => (fr.err = "BusNotReady" /\ fr.log = <<>>)

\* The transport calls of a completed Register.write on reg that passed its
\* checks: the write, then the verification read iff reg is readable.
RegisterWriteCalls(reg) ==
    << <<"writeto_mem", DEV_ADDR, reg.addr>> >>
    \o (IF reg.r_w \in _READ THEN << <<"readfrom_mem", DEV_ADDR, reg.addr>> >> ELSE <<>>)

\* C14 as stated: Register.write fails with a permission error and no
\* transport call on a ReadOnly register, fails with the value-too-large
\* error and no transport call for value > 2^width - 1, and for EVERY value in
\* [0, 2^width - 1] on a writable register issues one single-byte write,
\* followed by one verification read iff the register is readable.
C14_AsStated ==
    \A c \in Contexts :
        LET fr == ctx[c]
            reg == registers[fr.fname]
        IN (fr.op = "Register.write" /\ fr.pc = "done") =>
            /\ reg.r_w \notin _WRITE => (fr.err = "Permission" /\ fr.log = <<>>)
            /\ (reg.r_w \in _WRITE /\ fr.value > Pow2(reg.width) - 1)
                 => (fr.err = "ValueTooLarge" /\ fr.log = <<>>)
            /\ (reg.r_w \in _WRITE /\ fr.value \in 0..(Pow2(reg.width) - 1))
                 => (fr.wr = fr.value /\ fr.log = RegisterWriteCalls(reg))

\* C14 (Register.write protocol): a ReadOnly register gives a permission
\* error and no transport call; value > 2^width - 1 on a writable register
\* gives the value-too-large error and no transport call; every value in
\* [0, min(2^width - 1, 255)] on a writable register gives one single-byte
\* write, followed by one verification read iff the register is readable;
\* a value in [256, 2^width - 1] (width 16) fails in bytes([value]) before
\* any transport call.
C14_RegisterWriteProtocol ==
    \A c \in Contexts :
        LET fr == ctx[c]
            reg == registers[fr.fname]
        IN (fr.op = "Register.write") =>
            /\ fr.pc \in {"rw_verify", "done"}
            /\ fr.pc = "rw_verify" =>
                 /\ reg.r_w = "R/W" /\ BytesOk(fr.value) /\ fr.wr = fr.value
                 /\ fr.log = << <<"writeto_mem", DEV_ADDR, reg.addr>> >>
            /\ fr.pc = "done" =>
                 /\ reg.r_w \notin _WRITE => (fr.err = "Permission" /\ fr.log = <<>>)
                 /\ (reg.r_w \in _WRITE /\ fr.value > Pow2(reg.width) - 1)
                      => (fr.err = "ValueTooLarge" /\ fr.log = <<>>)
                 /\ (reg.r_w \in _WRITE /\ fr.value \in 0..(Pow2(reg.width) - 1)
                      /\ BytesOk(fr.value))
                      => (fr.wr = fr.value /\ fr.log = RegisterWriteCalls(reg))
                 /\ (reg.r_w \in _WRITE /\ fr.value \in 0..(Pow2(reg.width) - 1)
                      /\ ~BytesOk(fr.value))
                      => (fr.err = "BytesValue" /\ fr.log = <<>>)

\* A WriteOnly register got the write and no read.
C14_Witness ==
    \E c \in Contexts :
        /\ ctx[c].op = "Register.write" /\ ctx[c].pc = "done"
        /\ registers[ctx[c].fname].r_w = "W"
        /\ ctx[c].value = 83 /\ ctx[c].wr = 83 /\ ctx[c].err = "none"
        /\ Len(ctx[c].log) = 1

\* C15 as stated: for every readable register, Register.read returns v with
\* 0 <= v <= 2^width - 1 for the register's declared width.
C15_AsStated ==
    \A c \in Contexts :
        LET fr == ctx[c] IN
        (fr.op = "Register.read" /\ fr.pc = "done" /\ fr.err = "none") =>
            (0 <= fr.ret /\ fr.ret <= Pow2(registers[fr.fname].width) - 1)

\* C15 (register reads are one unsigned byte): Register.read on a readable
\* register returns the byte the device holds at the register's address as
\* an unsigned value in 0..255, whatever the declared width; that is within
\* 0..2^width - 1 when the declared width is 8 or more.
C15_ReadIsOneUnsignedByte ==
    \A c \in Contexts :
        LET fr == ctx[c]
            reg == registers[fr.fname]
        IN (fr.op = "Register.read" /\ fr.pc = "done") =>
            /\ (fr.err = "none") <=> (reg.r_w \in _READ)
            /\ fr.err = "none" =>
                 /\ fr.ret = mem[reg.addr]
                 /\ 0 <= fr.ret /\ fr.ret <= ByteMax
                 /\ reg.width >= RegBits => fr.ret <= Pow2(reg.width) - 1

\* An 8-bit register read back with its top bit set.
C15_Witness ==
    \E c \in Contexts :
        /\ ctx[c].op = "Register.read" /\ ctx[c].pc = "done" /\ ctx[c].err = "none"
        /\ registers[ctx[c].fname].width = RegBits
        /\ ctx[c].ret = ByteMax

\* C16 (accessor query): voltage_limit() returns raw*2 + 1504, raw being the
\* value read from field VFB_REG (a raw value of 0 yields 1504).
C16_QueryOffset ==
    \A c \in Contexts :
        LET fr == ctx[c] IN
        (/\ fr.acc = "voltage_limit" /\ fr.op = "Field.read"
         /\ fr.pc = "done" /\ fr.err = "none")
        => fr.ret = FieldExtract(fields["VFB_REG"], fr.rb) * 2 + 1504

\* C17 (accessor command): for every integer voltage_mv in [1504, 1566],
\* voltage_limit(voltage_mv) calls Field.write on VFB_REG with
\* raw = (voltage_mv - 1504) div 2, which lies in [0, 31], so that the write
\* passes the width check of the 5-bit field and, on a device that stores
\* what is written, returns without error; 1550 gives raw 23.
C17_CommandConversion ==
    \A c \in Contexts :
        LET fr == ctx[c] IN
        (fr.acc = "voltage_limit" /\ fr.arg \in 1504..1566) =>
            /\ fr.op = "Field.write" /\ fr.fname = "VFB_REG"
            /\ fr.value = (fr.arg - 1504) \div 2
            /\ fr.value \in 0..31
            /\ fr.arg = 1550 => fr.value = 23
            /\ fr.pc = "done" => fr.err = "none"

C17_Witness ==
    \E c \in Contexts :
        /\ ctx[c].acc = "voltage_limit" /\ ctx[c].arg = 1550
        /\ ctx[c].op = "Field.write" /\ ctx[c].pc = "done" /\ ctx[c].err = "none"
        /\ ctx[c].value = 23
        /\ FieldExtract(fields["VFB_REG"], mem[registers["CHARGE_VOLT_LIMIT"].addr]) = 23

\* C18 (command-or-query duality): for each accessor and every integer its
\* range check accepts that is a multiple of its step, the command completes
\* without error on a device that stores what is written, and the query that
\* follows it returns that same value.
C18_Duality ==
    \A c \in Contexts :
        LET fr == ctx[c] IN
        fr.acc # "-" =>
            /\ (/\ fr.op = "Field.write" /\ fr.pc = "done"
                /\ fr.arg % Accessor[fr.acc].step = 0)
               => fr.err = "none"
            /\ (/\ fr.op = "Field.read" /\ fr.pc = "done"
                /\ fr.pwarg >= 0 /\ fr.pwarg % Accessor[fr.acc].step = 0)
               => (fr.err = "none" /\ fr.ret = fr.pwarg)

\* C19 (field containment): every field that exists after BQ25756
\* construction satisfies bit_offset + width <= width of its parent register.
C19_FieldContainment ==
    \A f \in DOMAIN fields : Contained(fields[f])

\* C20 (permission domain): every Register and every Field that was
\* successfully constructed carries one of the tags 'R', 'W', 'R/W', and a
\* construction with any other tag fails.
C20_PermissionDomain ==
    /\ \A r \in DOMAIN registers : registers[r].r_w \in _RW_TYPE
    /\ \A f \in DOMAIN fields : fields[f].r_w \in _RW_TYPE
    /\ \A c \in Contexts :
         (ctx[c].op \in {"add_register", "add_field"} /\ ctx[c].tag \notin _RW_TYPE)
         => ctx[c].err # "none"

\* C21 (unique construction): add_register under a name that is already in
\* Device.registers fails with a duplicate-name error and leaves the earlier
\* register in place.
C21_UniqueConstruction ==
    \A c \in Contexts :
        LET fr == ctx[c] IN
        (fr.op = "add_register" /\ fr.pc = "done" /\ fr.prior # NoRegister)
        => (fr.err = "DuplicateName" /\ registers[fr.fname] = fr.prior)

IsPowerOfTwo(w) == \E k \in 0..MaxCtorWidth : w = Pow2(k)

\* C26 (register width): on a device with a bus, construction of a Register
\* succeeds if and only if the integer width is a power of two >= 1: width 0,
\* every negative width and every positive width that is not a power of two
\* are rejected with no register stored, and widths 1, 2, 4, 8, 16 are
\* accepted and stored as given.
C26_WidthIsPowerOfTwo ==
    /\ \A r \in DOMAIN registers : IsPowerOfTwo(registers[r].width)
    /\ \A c \in Contexts :
         LET fr == ctx[c] IN
         (fr.op = "add_register" /\ fr.pc = "done" /\ i2c_bus = "I2C") =>
             /\ (fr.err = "none") <=> IsPowerOfTwo(fr.value)
             /\ fr.value \in {1, 2, 4, 8, 16} =>
                  (fr.err = "none" /\ registers[fr.fname].width = fr.value)
             /\ fr.err # "none" =>
                  /\ fr.err = "ValueError"
                  /\ IF fr.prior = NoRegister THEN fr.fname \notin DOMAIN registers
                     ELSE registers[fr.fname] = fr.prior

\* A 16-bit register was accepted on a device that also holds a 1-bit one.
C26_Witness ==
    \E c \in Contexts :
        /\ ctx[c].op = "add_register" /\ ctx[c].pc = "done" /\ ctx[c].err = "none"
        /\ ctx[c].value = 16 /\ registers[ctx[c].fname].width = 16
        /\ \E r \in DOMAIN registers : registers[r].width = 1

\* C22 (protocol order of Field.write): a Field.write that passed its
\* validation (writable field, 0 <= value <= 2^width - 1, field inside the
\* register) on a readable register has issued, when it ends, exactly one
\* register read, one register write and one verification read, in this
\* order, all to the same device and register address, whatever its outcome.
C22_ProtocolOrder ==
    \A c \in Contexts :
        LET fr == ctx[c] IN
        (fr.op = "Field.write" /\ fr.pc = "done") =>
            LET fld == fields[fr.fname]
                reg == registers[fld.register]
            IN (/\ i2c_bus = "I2C"
                /\ fld.r_w \in _WRITE /\ reg.r_w \in _READ
                /\ Contained(fld)
                /\ fr.value \in 0..(Pow2(fld.width) - 1))
               => fr.log = << <<"readfrom_mem", DEV_ADDR, reg.addr>>,
                              <<"writeto_mem", DEV_ADDR, reg.addr>>,
                              <<"readfrom_mem", DEV_ADDR, reg.addr>> >>

\* C23 (Field.write agrees with read_modify): for every register byte R in
\* 0..255, every field inside the register and every v in [0, 2^width - 1],
\* the byte Field.write sends to the transport equals
\* read_modify(R, v << bit_offset, (2^width - 1) << bit_offset).
C23_WriteIsReadModify ==
    \A c \in Contexts :
        LET fr == ctx[c] IN
        (fr.op = "Field.write" /\ fr.pc \in {"fw_write", "fw_verify", "done"}) =>
            LET fld == fields[fr.fname] IN
            (Contained(fld) /\ fr.value \in 0..(Pow2(fld.width) - 1) /\ fr.rd >= 0) =>
                /\ fr.register_data =
                     ReadModify(fr.rd, Shl(fr.value, fld.bit_offset), FieldMask(fld))
                /\ fr.pc \in {"fw_verify", "done"} => fr.wr = fr.register_data

\* The byte 0xFF with the 3-bit field at offset 5 written to 2: 0x5F sent.
C23_Witness ==
    \E c \in Contexts :
        /\ ctx[c].op = "Field.write" /\ ctx[c].pc = "done" /\ ctx[c].err = "none"
        /\ IsGeometry(fields[ctx[c].fname], 5, 3)
        /\ ctx[c].rd = 255 /\ ctx[c].value = 2 /\ ctx[c].wr = 95
        /\ mem[REG_ADDR] = 95

\* C24 (read_modify over 8-bit inputs): the result agrees with read_data at
\* every bit outside bit_mask and with modify_data at every bit inside
\* bit_mask, and applying read_modify again with the same modify_data and
\* bit_mask gives the same result.
C24_ReadModifyAlgebra ==
    \A c \in Contexts :
        LET fr == ctx[c] IN
        (fr.op = "read_modify" /\ fr.pc = "done") =>
            LET r == fr.args[1]
                m == fr.args[2]
                k == fr.args[3]
            IN /\ \A i \in 0..(RegBits - 1) :
                    BitAt(fr.ret, i) = IF BitAt(k, i) = 1 THEN BitAt(m, i) ELSE BitAt(r, i)
               /\ fr.ret \in AnyBytes
               /\ ReadModify(fr.ret, m, k) = fr.ret

\* read_modify(0xAC, 0x5A, 0xF0) = 0x5C
C24_Witness ==
    \E c \in Contexts :
        /\ ctx[c].op = "read_modify" /\ ctx[c].pc = "done"
        /\ ctx[c].args = <<172, 90, 240>> /\ ctx[c].ret = 92

\* C25 (check_range): check_range returns without error when value is None,
\* and otherwise fails if and only if value < min or value > max; an accessor
\* of BQ25756 called with an integer outside its range fails with that error
\* before any transport call, and one called with an integer inside its
\* range goes on to Field.write.
C25_CheckRange ==
    \A c \in Contexts :
        LET fr == ctx[c] IN
        /\ (fr.op = "check_range" /\ fr.acc = "-" /\ fr.pc = "done") =>
             LET v == fr.args[1]
                 lo == fr.args[2]
                 hi == fr.args[3]
             IN /\ fr.err \in {"none", "Range"}
                /\ v.none => fr.err = "none"
                /\ ~v.none => ((fr.err = "Range") <=> (v.int < lo \/ v.int > hi))
        /\ fr.acc # "-" =>
             LET out == fr.arg < Accessor[fr.acc].lo \/ fr.arg > Accessor[fr.acc].hi IN
             /\ out => /\ fr.pc = "done" /\ fr.op = "check_range" /\ fr.err = "Range"
                       /\ fr.log = <<>> /\ ~fr.dirty
             /\ ~out => (fr.op = "Field.write" /\ fr.err # "Range")

C25_Witness ==
    \E c \in Contexts :
        /\ ctx[c].acc = "current_limit" /\ ctx[c].arg = 20001
        /\ ctx[c].pc = "done" /\ ctx[c].err = "Range" /\ ctx[c].log = <<>>
        /\ lastWriter # 0

\* C27 (last write wins under serialization): on a device that stores what
\* is written, with Field.write calls made one at a time on non-overlapping
\* fields of one register, Field.read of a field returns the value of the
\* latest Field.write on it that returned normally, or the field's initial
\* value if there was none; between calls the register holds these values
\* in every field.
C27_LastWriteWins ==
    \A c \in Contexts :
        LET fr == ctx[c] IN
        /\ (fr.op = "Field.read" /\ fr.pc = "done")
           => (fr.err = "none" /\ fr.ret = fr.last[fr.fname])
        /\ Ready(c)
           => \A f \in DOMAIN fields :
                FieldExtract(fields[f], mem[registers[fields[f].register].addr]) = Expected(c, f)

\* F2 reads back the 2 written to it, after F1 was written to 5 (the byte
\* began as 0xAC, F1 = 3 and F2 = 0).
C27_Witness ==
    \E c \in Contexts :
        /\ ctx[c].op = "Field.read" /\ ctx[c].pc = "done" /\ ctx[c].fname = "F2"
        /\ IsGeometry(fields["F1"], 2, 3) /\ IsGeometry(fields["F2"], 0, 2)
        /\ ctx[c].ret = 2 /\ ctx[c].last["F2"] = 2 /\ ctx[c].last["F1"] = 5
        /\ mem[REG_ADDR] = 182

\* C28 (negative value): Field.write called with a negative value on a
\* writable field fails, issues no transport write and leaves the device
\* register unchanged, and issues no transport call of any kind.
C28_NegativeValueIsRefused ==
    \A c \in Contexts :
        LET fr == ctx[c] IN
        (/\ fr.op = "Field.write" /\ fr.pc = "done"
         /\ fr.value < 0 /\ fields[fr.fname].r_w \in _WRITE)
        => /\ fr.err # "none"
           /\ fr.wr = -1 /\ ~fr.dirty
           /\ fr.log = <<>>

\* C29: _strobe_data(data) completes with exactly two bus writes (data with
\* the enable bit, then data without it) and no readback, and constructing an
\* Hd44780 with rows in 1..4 and columns in 8..40 on a working bus completes
\* without an error.  The code does not do this: both self.write calls pass
\* read_check=False, which Device.write does not accept.
C29_StrobeIsTwoRawWrites ==
    \A c \in Contexts :
        ctx[c].pc = "done" =>
            /\ ctx[c].op = "_strobe_data" =>
                 /\ ctx[c].err = "none"
                 /\ ctx[c].log = << <<"writeto", DEV_ADDR, -1>>, <<"writeto", DEV_ADDR, -1>> >>
                 /\ ctx[c].wr = AndNot(ctx[c].value, 4)
            /\ ( /\ ctx[c].op = "Hd44780.__init__"
                 /\ faithful
                 /\ ctx[c].args[1] \in 1..4
                 /\ ctx[c].args[2] \in 8..40 ) => ctx[c].err = "none"

====
